---- MODULE Spec2Model ----
(***************************************************************************)
(* Model of the uvarint crate: LEB128-style unsigned varint codec          *)
(* (src/src/decode.rs, src/src/encode.rs) and its std::io adapters         *)
(* (src/src/io.rs).                                                        *)
(*                                                                         *)
(* Representation.  TLC's integers are 32-bit, so a Rust uW value          *)
(* (u16/u32/u64/u128) is modelled as the set of positions of its 1 bits, a *)
(* subset of 0..W-1; the empty set is 0.  Bytes (u8) are naturals 0..255.  *)
(* The fixed width shows where the code depends on it: checked_shl drops   *)
(* the bits shifted past W-1, checked_add reports a carry out of bit W-1.  *)
(***************************************************************************)
EXTENDS Naturals, Sequences, FiniteSets

VARIABLES
    pc,        \* position of the codec harness / stream harness
    width,     \* W of the functions under call: 16, 32, 64 or 128
    value,     \* the uW argument of encode_uW / encode_uW_into
    encoded,   \* the Vec<u8> returned by encode_uW
    data,      \* the &[u8] handed to decode_uW
    from,      \* how data was obtained: "encoded", "extended", "truncated", "raw"
    ret,       \* the Result returned by the last call
    buf0,      \* the caller's buffer before encode_uW_into
    buf,       \* the caller's buffer after encode_uW_into
    reader,    \* io.rs: a std::io::Cursor, [bytes, pos]
    sink,      \* io.rs: the Write endpoint, [bytes, bounded, cap]
    wrote,     \* history of the write_uW calls: [fn, val, ret, before, reqs]
    reads      \* history of the read_uW calls: [fn, ret, before, after, eof]

vars == <<pc, width, value, encoded, data, from, ret, buf0, buf, reader, sink, wrote, reads>>

streamVars == <<reader, sink, wrote, reads>>

(***************************************************************************)
(* Bounds of the model.                                                    *)
(***************************************************************************)
\* longest run of bytes appended after an encoding
MaxExtra == 2
\* longest tail after a run of continuation bytes in a raw decoder input
MaxTail == 2
\* how far a run of continuation bytes goes beyond 19 bytes
MaxOver == 1
\* largest capacity of a buffer handed to encode_uW_into
MaxCap == 11
\* most write_uW calls on one sink
MaxWrites == 3
\* most read_uW calls on one source
MaxReads == 3
\* longest run of continuation bytes in a raw stream source
MaxRun == 11

(***************************************************************************)
(* Results.                                                                *)
(***************************************************************************)
\* error.rs: enum UVarintError
Incomplete == "Incomplete"
Overflow == "Overflow"
BufferTooSmall == "BufferTooSmall"
WriteFailed == "WriteFailed"

Err(e) == [ok |-> FALSE, err |-> e]
\* Ok((usize, uW)) of the decoders
OkDec(n, v) == [ok |-> TRUE, n |-> n, val |-> v]
\* Ok(usize) of encode_uW_into and write_uW
OkLen(n) == [ok |-> TRUE, n |-> n]
\* Ok(uW) of read_uW
OkVal(v) == [ok |-> TRUE, val |-> v]
NoRet == [ok |-> FALSE, err |-> "none"]

\* Option<uW> of checked_shl / checked_add
Some(v) == [some |-> TRUE, val |-> v]
None == [some |-> FALSE]

(***************************************************************************)
(* Fixed-width unsigned integers as sets of bit positions.                 *)
(***************************************************************************)
RECURSIVE Pow2(_)
Pow2(n) == IF n = 0 THEN 1 ELSE 2 * Pow2(n - 1)

RECURSIVE SumPow2(_)
\* the natural number whose 1 bits are the (small) set s
SumPow2(s) ==
    IF s = {} THEN 0
    ELSE LET b == CHOOSE x \in s : TRUE IN Pow2(b) + SumPow2(s \ {b})

\* (value & 0x7F) as u8
Low7(v) == SumPow2({b \in v : b < 7})

\* value >>= 7
Shr7(v) == {b - 7 : b \in {x \in v : x >= 7}}

\* (byte & 0x7F) as uW
DataBits(byte) == {b \in 0..6 : (byte \div Pow2(b)) % 2 = 1}

\* a slip of the termination test: byte <= 0x80
HighBitClear_le(byte) == byte <= 128

\* (byte & 0x80) == 0
HighBitClear(byte) == byte < 128

\* uW::checked_shl(rhs): None iff rhs >= W; otherwise self << rhs, where the bits
\* shifted past bit W-1 are dropped
checked_shl(W, x, rhs) ==
    IF rhs >= W THEN None
    ELSE Some({b + rhs : b \in {y \in x : y + rhs < W}})

RECURSIVE checked_add(_, _, _)
\* uW::checked_add: None iff the sum needs a bit past W-1.  Binary addition:
\* the sum without carries is the symmetric difference, the carries are the
\* common bits moved up by one.
checked_add(W, a, b) ==
    LET carry == {x + 1 : x \in a \cap b}
        part == (a \cup b) \ (a \cap b)
    IN  IF carry = {} THEN Some(part)
        ELSE IF W \in carry THEN None
        ELSE checked_add(W, part, carry)

(***************************************************************************)
(* encode.rs: the allocating encoders.                                     *)
(***************************************************************************)
RECURSIVE encode_loop_always_continue(_, _)
\* a slip of the loop: the continuation bit is set on every byte
encode_loop_always_continue(v, result) ==
    IF v = {} THEN result
    ELSE encode_loop_always_continue(Shr7(v), Append(result, Low7(v) + 128))

RECURSIVE encode_loop(_, _)
\* while value > 0 { byte = (value & 0x7F) as u8; value >>= 7;
\*                   if value > 0 { byte |= 0x80 }; result.push(byte) }
encode_loop(v, result) ==
    IF v = {} THEN result
    ELSE LET low == Low7(v)
             rest == Shr7(v)
             byte == IF rest # {} THEN low + 128 ELSE low
         IN  encode_loop(rest, Append(result, byte))

encode_u16(v) == IF v = {} THEN <<0>> ELSE encode_loop(v, <<>>)

\* a slip of encode_u32: no special case for 0
encode_u32_no_zero_case(v) == encode_loop(v, <<>>)

encode_u32(v) == IF v = {} THEN <<0>> ELSE encode_loop(v, <<>>)

encode_u64(v) == IF v = {} THEN <<0>> ELSE encode_loop(v, <<>>)

\* lib.rs re-exports encode_u128: the same algorithm on a u128, as the
\* specification's section 4.2 describes it
encode_u128(v) == IF v = {} THEN <<0>> ELSE encode_loop(v, <<>>)

(***************************************************************************)
(* encode.rs: the in-place encoders.  The result is the pair of the        *)
(* returned Result and the buffer as the call leaves it.                   *)
(***************************************************************************)
RECURSIVE encode_into_loop_late_check(_, _, _)
\* a slip of the capacity test: i > buf.len(); the store past the end is lost
encode_into_loop_late_check(v, b, i) ==
    IF v = {} THEN [ret |-> OkLen(i), buf |-> b]
    ELSE IF i > Len(b) THEN [ret |-> Err(BufferTooSmall), buf |-> b]
    ELSE LET low == Low7(v)
             rest == Shr7(v)
             byte == IF rest # {} THEN low + 128 ELSE low
         IN  encode_into_loop_late_check(rest,
                 IF i < Len(b) THEN [b EXCEPT ![i + 1] = byte] ELSE b, i + 1)

RECURSIVE encode_into_loop(_, _, _)
\* while value > 0 { if i >= buf.len() { return Err(BufferTooSmall) } ...
\*                   buf[i] = byte; i += 1 }  Ok(i)          (i is 0-based)
encode_into_loop(v, b, i) ==
    IF v = {} THEN [ret |-> OkLen(i), buf |-> b]
    ELSE IF i >= Len(b) THEN [ret |-> Err(BufferTooSmall), buf |-> b]
    ELSE LET low == Low7(v)
             rest == Shr7(v)
             byte == IF rest # {} THEN low + 128 ELSE low
         IN  encode_into_loop(rest, [b EXCEPT ![i + 1] = byte], i + 1)

\* a slip of the in-place encoders: the buffer is cleared before it is written
encode_into_clears(v, b) ==
    IF Len(b) = 0 THEN [ret |-> Err(BufferTooSmall), buf |-> b]
    ELSE IF v = {} THEN [ret |-> OkLen(1), buf |-> [i \in 1 .. Len(b) |-> 0]]
    ELSE encode_into_loop(v, [i \in 1 .. Len(b) |-> 0], 0)

encode_into(v, b) ==
    IF Len(b) = 0 THEN [ret |-> Err(BufferTooSmall), buf |-> b]
    ELSE IF v = {} THEN [ret |-> OkLen(1), buf |-> [b EXCEPT ![1] = 0]]
    ELSE encode_into_loop(v, b, 0)

encode_u16_into(v, b) == encode_into(v, b)

encode_u32_into(v, b) == encode_into(v, b)

encode_u64_into(v, b) == encode_into(v, b)

(***************************************************************************)
(* decode.rs: the decoders.                                                *)
(***************************************************************************)
RECURSIVE decode_loop(_, _, _, _, _)
\* for (i, &byte) in data.iter().take(take).enumerate() { ... }
\* Err(Incomplete)                                          (i is 0-based)
decode_loop(W, take, d, i, acc) ==
    IF i >= Len(d) \/ i >= take THEN Err(Incomplete)
    ELSE LET byte == d[i + 1]
             shifted == checked_shl(W, DataBits(byte), i * 7)
         IN  IF ~shifted.some THEN Err(Overflow)
             ELSE LET sum == checked_add(W, acc, shifted.val)
                  IN  IF ~sum.some THEN Err(Overflow)
                      ELSE IF HighBitClear(byte) THEN OkDec(i + 1, sum.val)
                      ELSE decode_loop(W, take, d, i + 1, sum.val)

decode_u32(d) == decode_loop(32, 5, d, 0, {})

\* a slip of decode_u64: Ok((data.len(), value))
decode_u64_whole_len(d) ==
    LET r == decode_loop(64, 10, d, 0, {})
    IN  IF r.ok THEN OkDec(Len(d), r.val) ELSE r

decode_u64(d) == decode_loop(64, 10, d, 0, {})

decode_u128(d) == decode_loop(128, 16, d, 0, {})

\* the functions of one width, as the harness calls them
encode(W, v) ==
    CASE W = 16 -> encode_u16(v)
      [] W = 32 -> encode_u32(v)
      [] W = 64 -> encode_u64(v)
      [] W = 128 -> encode_u128(v)

encode_uW_into(W, v, b) ==
    CASE W = 16 -> encode_u16_into(v, b)
      [] W = 32 -> encode_u32_into(v, b)
      [] W = 64 -> encode_u64_into(v, b)

decode(W, d) ==
    CASE W = 32 -> decode_u32(d)
      [] W = 64 -> decode_u64(d)
      [] W = 128 -> decode_u128(d)

(***************************************************************************)
(* Inputs of the codec harness.                                            *)
(***************************************************************************)
\* the widths that have an encoder, an in-place encoder, a decoder
EncodeWidths == {16, 32, 64, 128}
IntoWidths == {16, 32, 64}
DecodeWidths == {32, 64, 128}

\* uW values at the edges of every encoded length: 0, 2^k - 1 and 2^k for every
\* bit k of the width (so uW::MAX = 2^W - 1 is one of them), 2^k + 1, and 300
Values(W) ==
    {{}} \cup {0 .. (k - 1) : k \in 1 .. W} \cup {{k} : k \in 0 .. (W - 1)}
         \cup {{0, k} : k \in 1 .. (W - 1)} \cup {{2, 3, 5, 8}}

\* n copies of byte b
Rep(b, n) == [i \in 1 .. n |-> b]

\* the sequences over S of length at most n
RECURSIVE SeqsUpTo(_, _)
SeqsUpTo(S, n) ==
    IF n = 0 THEN {<<>>}
    ELSE LET shorter == SeqsUpTo(S, n - 1)
         IN  shorter \cup {Append(q, b) : q \in shorter, b \in S}

\* bytes appended after an encoding: terminators and continuation bytes
ExtraBytes == {0, 1, 127, 128, 255}
Extras == SeqsUpTo(ExtraBytes, MaxExtra) \ {<<>>}

\* bytes of a raw decoder input: 0x00 0x01 0x02 0x0F 0x10 0x7F 0x80 0xAC 0xFF
RawBytes == {0, 1, 2, 15, 16, 127, 128, 172, 255}

\* spec section 4.1: max_bytes(W) = ceil(W / 7)
MaxBytes(W) == (W + 6) \div 7

\* raw decoder inputs: a run of equal continuation bytes (up to past the longest
\* encoding of any width), then a short tail of arbitrary bytes
RawInputs ==
    {Rep(c, k) \o t : c \in {128, 255}, k \in 0 .. (MaxBytes(128) + MaxOver),
                      t \in SeqsUpTo(RawBytes, MaxTail)}

\* buffers handed to encode_uW_into: every capacity up to MaxCap, prefilled
Buffers == {Rep(f, c) : f \in {0, 238}, c \in 0 .. MaxCap}

NoReader == [bytes |-> <<>>, pos |-> 0]
NoSink == [bytes |-> <<>>, bounded |-> FALSE, cap |-> 0]

(***************************************************************************)
(* The codec harness: one call chain per behaviour.                        *)
(*   "value" -Encode-> "encoded" [-Extend-> "extended" | -Truncate->       *)
(*   "truncated"] -Decode-> "decoded";   "raw" -Decode-> "decoded";        *)
(*   "value" -EncodeInto-> "into";   "decoded" -ReEncode-> "reencoded"     *)
(***************************************************************************)
CodecInit ==
    /\ reader = NoReader /\ sink = NoSink /\ wrote = <<>> /\ reads = <<>>
    /\ encoded = <<>> /\ ret = NoRet /\ buf0 = <<>> /\ buf = <<>>
    /\ \/ /\ pc = "value" /\ from = "value"
          /\ width \in EncodeWidths
          /\ value \in Values(width)
          /\ data = <<>>
       \/ /\ pc = "raw" /\ from = "raw"
          /\ width \in DecodeWidths
          /\ value = {}
          /\ data \in RawInputs

\* let bytes = encode_uW(value)
Encode ==
    /\ pc = "value"
    /\ encoded' = encode(width, value)
    /\ data' = encoded'
    /\ pc' = "encoded" /\ from' = "encoded"
    /\ UNCHANGED <<width, value, ret, buf0, buf>>
    /\ UNCHANGED streamVars

\* the caller appends bytes after the encoding before decoding
Extend ==
    /\ pc = "encoded"
    /\ \E extra \in Extras : data' = encoded \o extra
    /\ pc' = "extended" /\ from' = "extended"
    /\ UNCHANGED <<width, value, encoded, ret, buf0, buf>>
    /\ UNCHANGED streamVars

\* the caller keeps a strict prefix of the encoding before decoding
Truncate ==
    /\ pc = "encoded"
    /\ \E k \in 0 .. (Len(encoded) - 1) : data' = SubSeq(encoded, 1, k)
    /\ pc' = "truncated" /\ from' = "truncated"
    /\ UNCHANGED <<width, value, encoded, ret, buf0, buf>>
    /\ UNCHANGED streamVars

\* decode_uW(&data)
Decode ==
    /\ pc \in {"encoded", "extended", "truncated", "raw"}
    /\ width \in DecodeWidths
    /\ ret' = decode(width, data)
    /\ pc' = "decoded"
    /\ UNCHANGED <<width, value, encoded, data, from, buf0, buf>>
    /\ UNCHANGED streamVars

\* encode_uW_into(value, &mut buf)
EncodeInto ==
    /\ pc = "value"
    /\ width \in IntoWidths
    /\ \E b \in Buffers :
          LET r == encode_uW_into(width, value, b)
          IN  buf0' = b /\ buf' = r.buf /\ ret' = r.ret
    /\ pc' = "into" /\ from' = "value"
    /\ UNCHANGED <<width, value, encoded, data>>
    /\ UNCHANGED streamVars

\* let again = encode_uW(v) for the v a successful decode_uW returned
ReEncode ==
    /\ pc = "decoded"
    /\ ret.ok
    /\ encoded' = encode(width, ret.val)
    /\ pc' = "reencoded"
    /\ UNCHANGED <<width, value, data, from, ret, buf0, buf>>
    /\ UNCHANGED streamVars

Next == Encode \/ Extend \/ Truncate \/ Decode \/ EncodeInto \/ ReEncode

Spec == CodecInit /\ [][Next]_vars

(***************************************************************************)
(* io.rs: the stream adapters.  A reader is a std::io::Cursor over bytes;  *)
(* a sink is a Vec<u8> (unbounded) or a fixed-size region that rejects     *)
(* what does not fit.                                                      *)
(***************************************************************************)
RECURSIVE read_bytes_ignore_error(_, _, _, _)
\* a slip of the loop: the error of read_exact is dropped (let _ = ...), so the
\* zero left in buf[i] ends the scan
read_bytes_ignore_error(r, limit, i, got) ==
    IF i >= limit THEN [failed |-> FALSE, got |-> got, reader |-> r]
    ELSE IF r.pos >= Len(r.bytes)
         THEN [failed |-> FALSE, got |-> Append(got, 0), reader |-> r]
    ELSE LET byte == r.bytes[r.pos + 1]
             r2 == [r EXCEPT !.pos = r.pos + 1]
         IN  IF HighBitClear(byte)
             THEN [failed |-> FALSE, got |-> Append(got, byte), reader |-> r2]
             ELSE read_bytes_ignore_error(r2, limit, i + 1, Append(got, byte))

RECURSIVE read_bytes(_, _, _, _)
\* for i in 0..limit { reader.read_exact(&mut buf[i..i + 1]).map_err(..)?;
\*                     bytes_read = i + 1; if (buf[i] & 0x80) == 0 { break } }
\* read_exact of one byte fails at the end of the cursor and consumes nothing
read_bytes(r, limit, i, got) ==
    IF i >= limit THEN [failed |-> FALSE, got |-> got, reader |-> r]
    ELSE IF r.pos >= Len(r.bytes) THEN [failed |-> TRUE, got |-> got, reader |-> r]
    ELSE LET byte == r.bytes[r.pos + 1]
             r2 == [r EXCEPT !.pos = r.pos + 1]
         IN  IF HighBitClear(byte)
             THEN [failed |-> FALSE, got |-> Append(got, byte), reader |-> r2]
             ELSE read_bytes(r2, limit, i + 1, Append(got, byte))

\* the result of read_uW and the reader as the call leaves it; eof tells that
\* read_exact failed
read_u32(r) ==
    LET rd == read_bytes(r, 10, 0, <<>>)
        d == decode_u32(rd.got)
    IN  IF rd.failed THEN [ret |-> Err(Incomplete), reader |-> rd.reader, eof |-> TRUE]
        ELSE [ret |-> IF d.ok THEN OkVal(d.val) ELSE d, reader |-> rd.reader, eof |-> FALSE]

\* a slip of read_u64: the bytes go to the 32-bit decoder
read_u64_via_decode_u32(r) ==
    LET rd == read_bytes(r, 10, 0, <<>>)
        d == decode_u32(rd.got)
    IN  IF rd.failed THEN [ret |-> Err(Incomplete), reader |-> rd.reader, eof |-> TRUE]
        ELSE [ret |-> IF d.ok THEN OkVal(d.val) ELSE d, reader |-> rd.reader, eof |-> FALSE]

read_u64(r) ==
    LET rd == read_bytes(r, 10, 0, <<>>)
        d == decode_u64(rd.got)
    IN  IF rd.failed THEN [ret |-> Err(Incomplete), reader |-> rd.reader, eof |-> TRUE]
        ELSE [ret |-> IF d.ok THEN OkVal(d.val) ELSE d, reader |-> rd.reader, eof |-> FALSE]

\* writer.write_all(&bytes): all of bytes are appended, or the sink takes what
\* fits and the request fails
write_all(w, bytes) ==
    IF ~w.bounded \/ Len(w.bytes) + Len(bytes) <= w.cap
    THEN [ok |-> TRUE, sink |-> [w EXCEPT !.bytes = w.bytes \o bytes]]
    ELSE [ok |-> FALSE,
          sink |-> [w EXCEPT !.bytes = w.bytes \o SubSeq(bytes, 1, w.cap - Len(w.bytes))]]

\* a slip of write_u64: the sink's length is returned, not this write's count
write_u64_total_len(w, v) ==
    LET bytes == encode_u64(v)
        wr == write_all(w, bytes)
    IN  [ret |-> IF wr.ok THEN OkLen(Len(wr.sink.bytes)) ELSE Err(WriteFailed),
         sink |-> wr.sink, reqs |-> <<bytes>>]

\* the result of write_uW, the sink as the call leaves it, and the requests
\* (the arguments of write_all) the call issued
write_u64(w, v) ==
    LET bytes == encode_u64(v)
        wr == write_all(w, bytes)
    IN  [ret |-> IF wr.ok THEN OkLen(Len(bytes)) ELSE Err(WriteFailed), sink |-> wr.sink,
         reqs |-> <<bytes>>]

\* a slip of write_u32: a rejected write_all is issued once more
write_u32_retry(w, v) ==
    LET bytes == encode_u32(v)
        wr == write_all(w, bytes)
        again == write_all(wr.sink, bytes)
    IN  IF wr.ok
        THEN [ret |-> OkLen(Len(bytes)), sink |-> wr.sink, reqs |-> <<bytes>>]
        ELSE [ret |-> IF again.ok THEN OkLen(Len(bytes)) ELSE Err(WriteFailed),
              sink |-> again.sink, reqs |-> <<bytes, bytes>>]

write_u32(w, v) ==
    LET bytes == encode_u32(v)
        wr == write_all(w, bytes)
    IN  [ret |-> IF wr.ok THEN OkLen(Len(bytes)) ELSE Err(WriteFailed), sink |-> wr.sink,
         reqs |-> <<bytes>>]

\* ReadVarintExt / WriteVarintExt delegate to the free functions
read_varint_u64(r) == read_u64(r)
read_varint_u32(r) == read_u32(r)
write_varint_u64(w, v) == write_u64(w, v)
write_varint_u32(w, v) == write_u32(w, v)

(***************************************************************************)
(* The stream harness: writes to a sink, then a cursor over what the sink  *)
(* holds and reads from it; or reads from a cursor over raw bytes.         *)
(***************************************************************************)
\* values written as u32: 0, 300, u32::MAX; as u64: 300, 2^35, u64::MAX
U32Samples == {{}, {2, 3, 5, 8}, 0 .. 31}
U64Samples == {{2, 3, 5, 8}, {35}, 0 .. 63}

Sinks ==
    {[bytes |-> <<>>, bounded |-> FALSE, cap |-> 0]}
        \cup {[bytes |-> <<>>, bounded |-> TRUE, cap |-> c] : c \in {1, 4}}

\* raw sources: a run of continuation bytes, then nothing, a terminator, or a
\* terminator and one more varint
RawSources ==
    {Rep(c, k) \o t : c \in {128, 255}, k \in 0 .. MaxRun, t \in {<<>>, <<1>>, <<1, 5>>}}

StreamInit ==
    /\ value = {} /\ encoded = <<>> /\ data = <<>> /\ from = "stream"
    /\ ret = NoRet /\ buf0 = <<>> /\ buf = <<>>
    /\ wrote = <<>> /\ reads = <<>>
    /\ \/ /\ pc = "writing"
          /\ width = 64
          /\ sink \in Sinks
          /\ reader = NoReader
       \/ /\ pc = "reading"
          /\ width \in {32, 64}
          /\ sink = NoSink
          /\ \E b \in RawSources : reader = [bytes |-> b, pos |-> 0]

\* writer.write_varint_u64(v)
WriteU64 ==
    /\ pc = "writing"
    /\ Len(wrote) < MaxWrites
    /\ \E v \in U64Samples :
          LET r == write_varint_u64(sink, v)
          IN  /\ sink' = r.sink
              /\ ret' = r.ret
              /\ wrote' = Append(wrote, [fn |-> "write_u64", val |-> v, ret |-> r.ret,
                                         before |-> Len(sink.bytes), reqs |-> r.reqs])
    /\ UNCHANGED <<pc, width, value, encoded, data, from, buf0, buf, reader, reads>>

\* writer.write_varint_u32(v)
WriteU32 ==
    /\ pc = "writing"
    /\ Len(wrote) < MaxWrites
    /\ \E v \in U32Samples :
          LET r == write_varint_u32(sink, v)
          IN  /\ sink' = r.sink
              /\ ret' = r.ret
              /\ wrote' = Append(wrote, [fn |-> "write_u32", val |-> v, ret |-> r.ret,
                                         before |-> Len(sink.bytes), reqs |-> r.reqs])
    /\ UNCHANGED <<pc, width, value, encoded, data, from, buf0, buf, reader, reads>>

\* let mut cursor = Cursor::new(buf); the reads that follow are all of one width
OpenCursor ==
    /\ pc = "writing"
    /\ wrote # <<>>
    /\ reader' = [bytes |-> sink.bytes, pos |-> 0]
    /\ pc' = "reading"
    /\ width' \in {32, 64}
    /\ UNCHANGED <<value, encoded, data, from, ret, buf0, buf, sink, wrote, reads>>

\* cursor.read_varint_u64()
ReadU64 ==
    /\ pc = "reading"
    /\ width = 64
    /\ Len(reads) < MaxReads
    /\ LET r == read_varint_u64(reader)
       IN  /\ reader' = r.reader
           /\ ret' = r.ret
           /\ reads' = Append(reads, [fn |-> "read_u64", ret |-> r.ret, before |-> reader.pos,
                                      after |-> r.reader.pos, eof |-> r.eof])
    /\ UNCHANGED <<pc, width, value, encoded, data, from, buf0, buf, sink, wrote>>

\* cursor.read_varint_u32()
ReadU32 ==
    /\ pc = "reading"
    /\ width = 32
    /\ Len(reads) < MaxReads
    /\ LET r == read_varint_u32(reader)
       IN  /\ reader' = r.reader
           /\ ret' = r.ret
           /\ reads' = Append(reads, [fn |-> "read_u32", ret |-> r.ret, before |-> reader.pos,
                                      after |-> r.reader.pos, eof |-> r.eof])
    /\ UNCHANGED <<pc, width, value, encoded, data, from, buf0, buf, sink, wrote>>

StreamNext == WriteU64 \/ WriteU32 \/ OpenCursor \/ ReadU64 \/ ReadU32

StreamSpec == StreamInit /\ [][StreamNext]_vars

(***************************************************************************)
(* Properties of the codec (specification Spec).                           *)
(***************************************************************************)
\* bit_length(v): the position of the highest 1 bit, plus one; 0 for v = 0
BitLength(v) == IF v = {} THEN 0 ELSE 1 + (CHOOSE b \in v : \A c \in v : c <= b)

\* max(1, ceil(bit_length(v) / 7))
MinimalLen(v) == IF v = {} THEN 1 ELSE (BitLength(v) + 6) \div 7

Min(a, b) == IF a <= b THEN a ELSE b

\* the index of the first byte of d with its high bit clear; 0 if there is none
FirstTerminator(d) ==
    IF \E i \in 1 .. Len(d) : d[i] < 128
    THEN CHOOSE i \in 1 .. Len(d) : d[i] < 128 /\ \A j \in 1 .. (i - 1) : d[j] >= 128
    ELSE 0

\* the number of bytes a decoder of width W scans in d: up to the first byte with
\* its high bit clear, no more than max_bytes(W), no more than d holds
Scanned(W, d) ==
    LET lim == Min(Len(d), MaxBytes(W))
        t == FirstTerminator(d)
    IN  IF t # 0 /\ t <= lim THEN t ELSE lim

\* the bits of the unbounded sum over i < n of (d[i] & 0x7F) << (7 * i): the
\* groups do not overlap, so the sum is their union
ExactBits(d, n) == UNION {{7 * (i - 1) + b : b \in DataBits(d[i])} : i \in 1 .. n}

\* C1: Round-trip.  For W in {32, 64} and every value v, decode_uW(encode_uW(v))
\* succeeds and returns (length of encode_uW(v), v).
C1_RoundTrip ==
    (pc = "decoded" /\ from = "encoded" /\ width \in {32, 64})
        => ret = OkDec(Len(encoded), value)

\* u32::MAX and its five-byte encoding have gone through decode_u32
C1_Witness ==
    /\ pc = "decoded" /\ from = "encoded" /\ width = 32
    /\ value = 0 .. 31 /\ Len(encoded) = 5 /\ ret.ok

\* C2 (as claimed): whenever the sum over the scanned bytes of
\* (byte & 0x7F) << (7*i) exceeds 2^W - 1, decode_uW fails with Overflow.
C2_OverflowReported ==
    (pc = "decoded" /\ \E b \in ExactBits(data, Scanned(width, data)) : b >= width)
        => ret = Err(Overflow)

\* C3: Minimality.  For W in {16, 32, 64}, encode_uW(v) has length
\* max(1, ceil(bit_length(v)/7)), every byte but the last has its high bit set,
\* the last has it clear, encode_uW(0) = [0x00], and the length is at most
\* 3, 5, 10.
C3_Minimality ==
    (pc = "encoded" /\ width \in {16, 32, 64}) =>
        /\ Len(encoded) = MinimalLen(value)
        /\ \A i \in 1 .. (Len(encoded) - 1) : encoded[i] >= 128
        /\ encoded[Len(encoded)] < 128
        /\ (value = {} => encoded = <<0>>)
        /\ Len(encoded) <= (CASE width = 16 -> 3 [] width = 32 -> 5 [] width = 64 -> 10)

\* u64::MAX has been encoded into ten bytes
C3_Witness ==
    pc = "encoded" /\ width = 64 /\ value = 0 .. 63 /\ Len(encoded) = 10

\* C4: Incomplete.  If none of the first min(len(data), max_bytes(W)) bytes has
\* its high bit clear and no overflow occurred, decode_uW fails with Incomplete.
C4_Incomplete ==
    (/\ pc = "decoded"
     /\ \A i \in 1 .. Min(Len(data), MaxBytes(width)) : data[i] >= 128
     /\ ret # Err(Overflow))
        => ret = Err(Incomplete)

\* decode_u32 has failed on five continuation bytes followed by a terminator
C4_Witness ==
    /\ pc = "decoded" /\ width = 32 /\ from = "raw"
    /\ data = <<128, 128, 128, 128, 128, 1>>
    /\ ret = Err(Incomplete)

\* C5: Prefix independence.  For W in {32, 64}, decode_uW(encode_uW(v) ++ extra)
\* succeeds with (length of encode_uW(v), v), whatever extra holds.
C5_PrefixIndependence ==
    (pc = "decoded" /\ from = "extended" /\ width \in {32, 64})
        => ret = OkDec(Len(encoded), value)

\* u64::MAX followed by a continuation byte has gone through decode_u64
C5_Witness ==
    /\ pc = "decoded" /\ from = "extended" /\ width = 64
    /\ value = 0 .. 63 /\ Len(data) > Len(encoded) /\ data[Len(encoded) + 1] = 255
    /\ ret.ok

\* C6 (as claimed): decode_u128 of the minimal encoding of any 128-bit value
\* succeeds with (length, v), and decode_u128 reports Incomplete only when none
\* of the first min(len, 19) bytes has its high bit clear.
C6_U128Accepts19 ==
    /\ (pc = "decoded" /\ width = 128 /\ from = "encoded")
           => ret = OkDec(Len(encoded), value)
    /\ (pc = "decoded" /\ width = 128 /\ ret = Err(Incomplete))
           => \A i \in 1 .. Min(Len(data), 19) : data[i] >= 128

\* C7: In-place encode agrees with allocating encode.  With c the capacity of
\* the buffer, encode_uW_into returns Ok(n) with n = len(encode_uW(v)) and
\* buf[0..n] = encode_uW(v) when c >= len(encode_uW(v)), and BufferTooSmall
\* when c < len(encode_uW(v)).
C7_IntoAgrees ==
    pc = "into" =>
        LET e == encode(width, value)
        IN  /\ Len(buf0) >= Len(e) => (ret = OkLen(Len(e)) /\ SubSeq(buf, 1, Len(e)) = e)
            /\ Len(buf0) < Len(e) => ret = Err(BufferTooSmall)

\* 300 has been encoded into a one-byte buffer
C7_Witness ==
    /\ pc = "into" /\ width = 32 /\ value = {2, 3, 5, 8}
    /\ Len(buf0) = 1 /\ ret = Err(BufferTooSmall)

(***************************************************************************)
(* Properties of the stream adapters (specification StreamSpec).           *)
(***************************************************************************)
AllWritesOk == \A j \in 1 .. Len(wrote) : wrote[j].ret.ok

\* the encoding a write call of the history hands to the sink
WrittenBytes(w) == IF w.fn = "write_u32" THEN encode_u32(w.val) ELSE encode_u64(w.val)

RECURSIVE ConcatWritten(_)
\* encode(v1) ++ ... ++ encode(vn) for the first n writes
ConcatWritten(n) == IF n = 0 THEN <<>> ELSE ConcatWritten(n - 1) \o WrittenBytes(wrote[n])

RECURSIVE SumMinimalLen(_)
\* the summed lengths max(1, ceil(bit_length(v)/7)) of the first n values written
SumMinimalLen(n) == IF n = 0 THEN 0 ELSE SumMinimalLen(n - 1) + MinimalLen(wrote[n].val)

RECURSIVE SumCounts(_)
\* the summed counts returned by the first n writes
SumCounts(n) == IF n = 0 THEN 0 ELSE SumCounts(n - 1) + wrote[n].ret.n

\* C8: Consecutive stream reads.  When the source holds encode(v1) ++ ... ++
\* encode(vn), the i-th of successive read_u64 calls returns vi, and consumes
\* exactly the bytes up to and including the first byte whose high bit is
\* clear, leaving the source at the next varint.
C8_ConsecutiveReads ==
    (pc = "reading" /\ width = 64 /\ wrote # <<>> /\ AllWritesOk) =>
        \A i \in 1 .. Min(Len(reads), Len(wrote)) :
            /\ reads[i].ret = OkVal(wrote[i].val)
            /\ reads[i].before = SumMinimalLen(i - 1)
            /\ reads[i].after = SumMinimalLen(i)
            /\ reader.bytes[reads[i].after] < 128
            /\ \A k \in (reads[i].before + 1) .. (reads[i].after - 1) : reader.bytes[k] >= 128

\* three varints, the second u64::MAX, have been written and read back
C8_Witness ==
    /\ pc = "reading" /\ width = 64 /\ AllWritesOk
    /\ Len(wrote) = 3 /\ Len(reads) = 3
    /\ wrote[1].val = {2, 3, 5, 8} /\ wrote[2].val = 0 .. 63 /\ wrote[3].val = {}
    /\ reads[3].ret = OkVal({}) /\ reader.pos = 13

\* C9 (as claimed): when read_uW fails because no terminating byte is found
\* (the channel did not end and every byte consumed has its high bit set), it
\* has consumed exactly max_bytes(W) bytes: 5 for read_u32, 10 for read_u64.
C9_MalformedConsumesMaxBytes ==
    \A i \in 1 .. Len(reads) :
        (/\ ~reads[i].ret.ok /\ ~reads[i].eof
         /\ \A k \in (reads[i].before + 1) .. reads[i].after : reader.bytes[k] >= 128) =>
            reads[i].after - reads[i].before =
                (IF reads[i].fn = "read_u32" THEN MaxBytes(32) ELSE MaxBytes(64))

\* C10: Stream write.  A successful write_uW appends exactly the bytes of
\* encode_uW(v) and returns their count: after any sequence of successful
\* writes the sink holds encode(v1) ++ ... ++ encode(vn), each returned count is
\* the length of that write's encoding, and the counts sum to the sink's length.
C10_StreamWrite ==
    AllWritesOk =>
        /\ sink.bytes = ConcatWritten(Len(wrote))
        /\ \A j \in 1 .. Len(wrote) : wrote[j].ret = OkLen(Len(WrittenBytes(wrote[j])))
        /\ SumCounts(Len(wrote)) = Len(sink.bytes)

\* 300, 2^35 and u32::MAX have been written, by write_u64 and write_u32
C10_Witness ==
    /\ AllWritesOk /\ Len(wrote) = 3
    /\ wrote[1].fn = "write_u64" /\ wrote[1].val = {2, 3, 5, 8}
    /\ wrote[2].fn = "write_u64" /\ wrote[2].val = {35}
    /\ wrote[3].fn = "write_u32" /\ wrote[3].val = 0 .. 31
    /\ Len(sink.bytes) = 13

\* C11: Stream read failure kind.  If the channel ends before a byte with its
\* high bit clear has been pulled, read_uW returns Incomplete, never Overflow
\* and never a value: so it is whenever read_exact failed, and whenever the
\* bytes left in the source are fewer than max_bytes(W) and all carry the
\* continuation bit (the source [0x80] is one such).
C11_ReadFailureKind ==
    \A i \in 1 .. Len(reads) :
        LET left == Len(reader.bytes) - reads[i].before
            W == IF reads[i].fn = "read_u32" THEN 32 ELSE 64
        IN  /\ reads[i].eof => reads[i].ret = Err(Incomplete)
            /\ (/\ left < MaxBytes(W)
                /\ \A k \in (reads[i].before + 1) .. Len(reader.bytes) : reader.bytes[k] >= 128)
                   => (reads[i].ret = Err(Incomplete) /\ reads[i].after = Len(reader.bytes))

\* read_u64 has failed on a source that holds only [0x80]
C11_Witness ==
    /\ pc = "reading" /\ reader.bytes = <<128>> /\ Len(reads) = 1
    /\ reads[1].fn = "read_u64" /\ reads[1].eof /\ reads[1].ret = Err(Incomplete)

\* C12: Stream write failure.  If the sink rejects the write (the encoding does
\* not fit in what is left of a bounded sink), write_uW returns WriteFailed and
\* no byte count, and it has issued exactly one write request, for the whole
\* encoded sequence (no retry).
C12_WriteFailure ==
    \A j \in 1 .. Len(wrote) :
        LET bytes == WrittenBytes(wrote[j])
            rejected == sink.bounded /\ wrote[j].before + Len(bytes) > sink.cap
        IN  /\ rejected => wrote[j].ret = Err(WriteFailed)
            /\ ~wrote[j].ret.ok => (rejected /\ wrote[j].ret = Err(WriteFailed))
            /\ wrote[j].reqs = <<bytes>>

\* write_u32 of u32::MAX has been rejected by a sink with room for four bytes
C12_Witness ==
    /\ Len(wrote) = 1 /\ wrote[1].fn = "write_u32" /\ wrote[1].val = 0 .. 31
    /\ sink.bounded /\ sink.cap = 4
    /\ wrote[1].ret = Err(WriteFailed) /\ Len(wrote[1].reqs) = 1

(***************************************************************************)
(* Further properties of the codec (specification Spec).                   *)
(***************************************************************************)
\* C13 (as claimed): whenever decode_uW succeeds with (n, value), n is the index
\* of the first byte with its high bit clear plus one, 1 <= n <= max_bytes(W),
\* and value is the sum over i < n of (data[i] & 0x7F) << (7*i); so
\* [0x80, 0x00] decodes to (2, 0).
C13_DecodedValue ==
    (pc = "decoded" /\ ret.ok) =>
        /\ ret.n = FirstTerminator(data)
        /\ 1 <= ret.n /\ ret.n <= MaxBytes(width)
        /\ ret.val = ExactBits(data, ret.n)

\* C14 (as claimed): for every byte sequence b on which decode_uW succeeds with
\* (n, v), W in {32, 64}, encode_uW(v) equals b[0..n] if and only if b[0..n] is
\* minimal (n = 1 or b[n-1] # 0x00), and for a non-minimal b the encoder output
\* is strictly shorter than n.
C14_CanonicalReEncoding ==
    (pc = "reencoded" /\ width \in {32, 64}) =>
        LET n == ret.n
            minimal == n = 1 \/ data[n] # 0
        IN  /\ (encoded = SubSeq(data, 1, n)) <=> minimal
            /\ ~minimal => Len(encoded) < n

\* C15: Frame of in-place encode.  encode_uW_into leaves the buffer's length
\* alone; on Ok(n) every byte at index >= n is unchanged; on BufferTooSmall with
\* an empty buffer nothing is written; on BufferTooSmall with a non-empty buffer
\* the buffer holds exactly the first len(buf) bytes of encode_uW(v).
C15_IntoFrame ==
    pc = "into" =>
        /\ Len(buf) = Len(buf0)
        /\ ret.ok => \A i \in (ret.n + 1) .. Len(buf0) : buf[i] = buf0[i]
        /\ (~ret.ok /\ buf0 = <<>>) => buf = <<>>
        /\ (~ret.ok /\ buf0 # <<>>) => buf = SubSeq(encode(width, value), 1, Len(buf0))

\* 300 has been encoded by encode_u16_into into a buffer of three bytes 0xEE
C15_Witness ==
    /\ pc = "into" /\ width = 16 /\ value = {2, 3, 5, 8}
    /\ buf0 = <<238, 238, 238>> /\ buf = <<172, 2, 238>> /\ ret = OkLen(2)

====
